---- MODULE Spec2Model ----
(***************************************************************************)
(* A model of scripts/plot.py of mwax_stats: the script that reads the     *)
(* fringes binary file written by mwax_stats and plots one baseline.       *)
(*                                                                         *)
(* The script is straight-line code; the model cuts it into steps at the   *)
(* places where it can raise an exception, and runs the decode loop one    *)
(* iteration per step.  Text (the file name, the command-line arguments)   *)
(* is a sequence of one-character strings, the fringes file is a sequence  *)
(* of bytes (0..255), a numpy array is a record of its shape and its data. *)
(* Python indices start at 0, TLA+ sequence indices at 1: At and Slice do  *)
(* the shift.                                                              *)
(***************************************************************************)
EXTENDS Integers, Sequences, FiniteSets, TLC

(***************************************************************************)
(* Bounds of the model.                                                    *)
(***************************************************************************)
\* the channel counts written in the file names are 0..MaxFineChans
MaxFineChans == 2
\* the tile counts written in the file names are 0..MaxTiles ...
MaxTiles == 2
\* ... and one tile count of two significant digits
WideTiles == 12
\* the fringes files hold 0..MaxRecords complete records
MaxRecords == 7
\* BASELINE_NUMBER is omitted or one of -MaxView..MaxView
MaxView == 4

(***************************************************************************)
(* Constants of the program.                                               *)
(***************************************************************************)
\* file.read(12): one record is three 4-byte floats
RecordSize == 12
\* struct format 'fff': each float is 4 bytes
FloatSize == 4
\* the digit-width tests accept numbers of at most 3 digits
MaxWidth == 3

(***************************************************************************)
(* Text.                                                                   *)
(***************************************************************************)
DigitChars == <<"0", "1", "2", "3", "4", "5", "6", "7", "8", "9">>

Digits == {DigitChars[i] : i \in 1..10}

\* str.isdigit() of one character (the model's text is ASCII)
IsDigit(c) == c \in Digits

DigitVal(c) == (CHOOSE i \in 1..10 : DigitChars[i] = c) - 1

\* s[i] of Python
At(s, i) == s[i + 1]

Min(a, b) == IF a < b THEN a ELSE b

\* s[a:b] of Python for 0 <= a <= b: the slice is clipped to the text
Slice(s, a, b) == SubSeq(s, a + 1, Min(b, Len(s)))

\* the digits of int(text), once the text is known to be well formed
RECURSIVE DigitsValue(_)
DigitsValue(s) ==
    IF s = <<>> THEN 0
    ELSE LET init == SubSeq(s, 1, Len(s) - 1)
             last == s[Len(s)]
         IN  IF last = "_" THEN DigitsValue(init)
             ELSE 10 * DigitsValue(init) + DigitVal(last)

\* the text without its sign
Unsigned(s) == IF s # <<>> /\ s[1] \in {"+", "-"} THEN Tail(s) ELSE s

\* int(text) of Python succeeds: an optional sign, then decimal digits,
\* single underscores allowed between digits (the model's text holds no
\* white space)
PyIntOk(s) ==
    LET d == Unsigned(s)
    IN  /\ d # <<>>
        /\ \A i \in 1..Len(d) : IsDigit(d[i]) \/ d[i] = "_"
        /\ IsDigit(d[1])
        /\ IsDigit(d[Len(d)])
        /\ \A i \in 1..(Len(d) - 1) : ~(d[i] = "_" /\ d[i + 1] = "_")

\* int(text) of Python, when it succeeds
PyIntVal(s) ==
    IF s # <<>> /\ s[1] = "-" THEN 0 - DigitsValue(Unsigned(s))
    ELSE DigitsValue(Unsigned(s))

\* the position of the last "/" of a path, 0 when there is none
LastSlash(p) ==
    LET at == {i \in 1..Len(p) : p[i] = "/"}
    IN  IF at = {} THEN 0 ELSE CHOOSE i \in at : \A j \in at : j <= i

\* os.path.basename(path)
Basename(p) == SubSeq(p, LastSlash(p) + 1, Len(p))

(***************************************************************************)
(* The filename parameter extractor.  A result is [err, val]: err is       *)
(* "none" or the exception raised.                                         *)
(***************************************************************************)
Ok(v) == [err |-> "none", val |-> v]

Raise(e) == [err |-> e, val |-> 0]

\* int(text)
PyInt(s) == IF PyIntOk(s) THEN Ok(PyIntVal(s)) ELSE Raise("ValueError")

\* the text chosen for fine_chans; the file name is longer than 21
FineChansText(filename) ==
    IF IsDigit(At(filename, 21)) THEN Slice(filename, 19, 22)
    ELSE IF IsDigit(At(filename, 20)) THEN Slice(filename, 19, 21)
         ELSE Slice(filename, 19, 20)

\* fine_chans of the file name: filename[21] is read first
ParseFineChans(filename) ==
    IF Len(filename) <= 21 THEN Raise("IndexError")
    ELSE PyInt(FineChansText(filename))

\* the text chosen for tiles; the file name is longer than 30
TilesText(filename) ==
    IF IsDigit(At(filename, 30)) THEN Slice(filename, 28, 31)
    ELSE IF IsDigit(At(filename, 29)) THEN Slice(filename, 28, 30)
         ELSE Slice(filename, 28, 29)

\* tiles of the file name: filename[30] is read first
ParseTiles(filename) ==
    IF Len(filename) <= 30 THEN Raise("IndexError")
    ELSE PyInt(TilesText(filename))

\* a bug: the pairs of distinct tiles only
BaselinesOffByOne(t) == (t * (t - 1)) \div 2

\* int((tiles * (tiles + 1)) / 2): the product is even and far below 2^53, so
\* the float division is exact
Baselines(t) == (t * (t + 1)) \div 2

(***************************************************************************)
(* IEEE-754 single precision, little endian.  The fringes files of the     *)
(* model hold whole numbers below 2^24 in magnitude, whose singles are     *)
(* exact; a decoded value is that whole number.                            *)
(***************************************************************************)
RECURSIVE Pow2(_)
Pow2(n) == IF n = 0 THEN 1 ELSE 2 * Pow2(n - 1)

\* floor(log2(a)) for a >= 1
RECURSIVE Log2Floor(_)
Log2Floor(a) == IF a < 2 THEN 0 ELSE 1 + Log2Floor(a \div 2)

\* struct.pack('<f', v) for a whole number v, |v| < 2^24
Float32Bytes(v) ==
    IF v = 0 THEN <<0, 0, 0, 0>>
    ELSE LET sign == IF v < 0 THEN 1 ELSE 0
             a    == IF v < 0 THEN 0 - v ELSE v
             e    == Log2Floor(a)
             mant == (a - Pow2(e)) * Pow2(23 - e)
             bexp == e + 127
         IN  << mant % 256,
                (mant \div 256) % 256,
                (bexp % 2) * 128 + mant \div 65536,
                sign * 128 + bexp \div 2 >>

\* the value of the single held in 4 bytes
Float32Value(b) ==
    LET sign == b[4] \div 128
        bexp == (b[4] % 128) * 2 + b[3] \div 128
        mant == (b[3] % 128) * 65536 + b[2] * 256 + b[1]
        mag  == IF bexp = 0 /\ mant = 0 THEN 0
                ELSE IF bexp >= 150 THEN (8388608 + mant) * Pow2(bexp - 150)
                     ELSE (8388608 + mant) \div Pow2(150 - bexp)
    IN  IF sign = 1 THEN 0 - mag ELSE mag

\* a bug: the two phases are taken in the wrong order
UnpackSwapped(chunk) ==
    << Float32Value(SubSeq(chunk, 1, 4)),
       Float32Value(SubSeq(chunk, 9, 12)),
       Float32Value(SubSeq(chunk, 5, 8)) >>

\* struct.unpack('fff', chunk) of a 12-byte chunk, as a Python tuple
\* (element i of Python is element i + 1 here)
Unpack(chunk) ==
    << Float32Value(SubSeq(chunk, 1, FloatSize)),
       Float32Value(SubSeq(chunk, FloatSize + 1, 2 * FloatSize)),
       Float32Value(SubSeq(chunk, 2 * FloatSize + 1, 3 * FloatSize)) >>

\* struct.unpack('fff', chunk) raises struct.error unless the chunk has
\* exactly 12 bytes
UnpackOk(chunk) == Len(chunk) = 3 * FloatSize

(***************************************************************************)
(* numpy arrays.                                                           *)
(***************************************************************************)
\* a bug: the tensor is filled with ones
Ones3(d0, d1, d2) ==
    [shape |-> <<d0, d1, d2>>,
     data  |-> [i \in (0..(d0 - 1)) \X (0..(d1 - 1)) \X (0..(d2 - 1)) |-> 1]]

\* np.zeros((d0, d1, d2), dtype=float)
Zeros3(d0, d1, d2) ==
    [shape |-> <<d0, d1, d2>>,
     data  |-> [i \in (0..(d0 - 1)) \X (0..(d1 - 1)) \X (0..(d2 - 1)) |-> 0]]

\* np.zeros(d0, dtype=float)
Zeros1(d0) ==
    [shape |-> <<d0>>, data |-> [i \in 0..(d0 - 1) |-> 0]]

\* an index i is accepted along an axis of n entries (negative indices
\* count from the end)
InBounds(i, n) == (0 - n) <= i /\ i < n

\* the entry an accepted index means
NormIndex(i, n) == IF i < 0 THEN i + n ELSE i

\* a[i, j, k] = v is accepted
CanSet3(a, i, j, k) ==
    /\ InBounds(i, a.shape[1])
    /\ InBounds(j, a.shape[2])
    /\ InBounds(k, a.shape[3])

\* a after a[i, j, k] = v
Set3(a, i, j, k, v) ==
    LET at == << NormIndex(i, a.shape[1]),
                 NormIndex(j, a.shape[2]),
                 NormIndex(k, a.shape[3]) >>
    IN  [a EXCEPT !.data = [a.data EXCEPT ![at] = v]]

\* a after a[i] = v
Set1(a, i, v) ==
    [a EXCEPT !.data = [a.data EXCEPT ![NormIndex(i, a.shape[1])] = v]]

\* a[i, 0:n, k]: the slice is clipped to the axis
Row3(a, i, n, k) ==
    [c \in 0..(Min(n, a.shape[2]) - 1) |->
        a.data[<<NormIndex(i, a.shape[1]), c, NormIndex(k, a.shape[3])>>]]

(***************************************************************************)
(* The file.                                                               *)
(***************************************************************************)
\* a bug: a read that cannot be served whole returns nothing
ReadWholeOnly(bytes, pos, n) ==
    IF pos + n > Len(bytes) THEN <<>> ELSE SubSeq(bytes, pos + 1, pos + n)

\* file.read(n) at offset pos
Read(bytes, pos, n) == SubSeq(bytes, pos + 1, Min(pos + n, Len(bytes)))

(***************************************************************************)
(* The inputs of a run: the command line and the fringes file.             *)
(***************************************************************************)
\* the decimal text of v >= 0
RECURSIVE DecText(_)
DecText(v) ==
    IF v < 10 THEN <<DigitChars[v + 1]>>
    ELSE Append(DecText(v \div 10), DigitChars[(v % 10) + 1])

\* the decimal text of v >= 0, zero-padded to w digits
PadTo(v, w) ==
    LET d == DecText(v)
    IN  [i \in 1..(IF Len(d) >= w THEN Len(d) ELSE w) |->
            IF Len(d) >= w THEN d[i]
            ELSE IF i <= w - Len(d) THEN "0" ELSE d[i - (w - Len(d))]]

\* the decimal text of an integer
IntText(v) == IF v < 0 THEN <<"-">> \o DecText(0 - v) ELSE DecText(v)

\* the obs_id of the example file name
ObsId == <<"1", "3", "1", "9", "3", "7", "1", "3", "4", "4">>

\* <obs_id>_fringes_<fine_chans>chans_<tiles>T_ch<n>.dat
FileName(ft, tt) ==
    ObsId \o <<"_", "f", "r", "i", "n", "g", "e", "s", "_">> \o ft
          \o <<"c", "h", "a", "n", "s", "_">> \o tt
          \o <<"T", "_", "c", "h">> \o <<"1", "6", "9">>
          \o <<".", "d", "a", "t">>

Widths == 1..MaxWidth

\* the texts of <fine_chans>: 1, 2 or 3 digits
FineTexts == {PadTo(v, w) : v \in 0..MaxFineChans, w \in Widths}

\* the texts of <tiles>: 1, 2 or 3 digits
TileTexts ==
    {PadTo(v, w) : v \in 0..MaxTiles, w \in Widths}
        \cup {PadTo(WideTiles, w) : w \in {2, 3}}

\* the directory part of FILENAME
DirPrefixes == {<<>>, <<"d", "/">>}

Paths == {d \o FileName(ft, tt) : d \in DirPrefixes, ft \in FineTexts, tt \in TileTexts}

\* sys.argv[0]
Script == <<"p", "l", "o", "t", ".", "p", "y">>

\* the texts of BASELINE_NUMBER: integers, and one text that is no integer
BaselineTexts == {IntText(v) : v \in (0 - MaxView)..MaxView} \cup {<<"x">>}

\* sys.argv: FILENAME is given, BASELINE_NUMBER may be; or nothing is
Argvs ==
    {<<Script>>}
        \cup {<<Script, p>> : p \in Paths}
        \cup {<<Script, p, b>> : p \in Paths, b \in BaselineTexts}

\* the known values of record number n (n = 0, 1, ...) of a fringes file
FreqOf(n) == 100 + n

PhaseXOf(n) == n + 1

PhaseYOf(n) == 0 - (n + 30)

\* the 12 bytes of record number n
RecordBytes(n) ==
    Float32Bytes(FreqOf(n)) \o Float32Bytes(PhaseXOf(n)) \o Float32Bytes(PhaseYOf(n))

\* a file of k complete records followed by the first t bytes of the next
RECURSIVE FileOf(_, _)
FileOf(k, t) ==
    IF k = 0 THEN SubSeq(RecordBytes(0), 1, t)
    ELSE FileOf(k - 1, RecordSize) \o SubSeq(RecordBytes(k), 1, t)

\* the lengths of the incomplete record that ends a file
TrailLens == {0, 1, FloatSize, RecordSize - 1}

Files == {FileOf(k, t) : k \in 0..MaxRecords, t \in TrailLens}

\* a name that is not bound yet
NoArray == [shape |-> <<>>, data |-> <<>>]

VARIABLES
    argv,           \* sys.argv
    file_bytes,     \* the bytes of the fringes file
    full_filename,
    filename,
    view_baseline,
    fine_chans,
    tiles,
    baselines,
    np_data,        \* the phase tensor
    freqs,          \* the frequency table
    bl,
    fc,
    bytearray,      \* the chunk read last
    pos,            \* the offset of the open file
    fig,            \* the plot shown: <<>> or <<the figure>>
    pc,             \* the place of the script
    err,            \* the uncaught exception: "none" until one is raised
    err_line        \* the line of plot.py that raised it, 0 until then

vars == << argv, file_bytes, full_filename, filename, view_baseline,
           fine_chans, tiles, baselines, np_data, freqs, bl, fc, bytearray,
           pos, fig, pc, err, err_line >>

Init ==
    /\ argv \in Argvs
    /\ file_bytes \in Files
    /\ full_filename = <<>>
    /\ filename = <<>>
    /\ view_baseline = 0
    /\ fine_chans = 0
    /\ tiles = 0
    /\ baselines = 0
    /\ np_data = NoArray
    /\ freqs = NoArray
    /\ bl = 0
    /\ fc = 0
    /\ bytearray = <<>>
    /\ pos = 0
    /\ fig = <<>>
    /\ pc = "args"
    /\ err = "none"
    /\ err_line = 0

Goto(l) == pc' = l /\ err' = err /\ err_line' = err_line

\* an uncaught exception, raised at a line of plot.py, ends the run
Fail(e, line) == pc' = "failed" /\ err' = e /\ err_line' = line

\* lines 16-23
ReadArgs ==
    /\ pc = "args"
    /\ IF Len(argv) < 2
       THEN /\ Fail("IndexError", 16)
            /\ UNCHANGED <<full_filename, filename, view_baseline>>
       ELSE /\ full_filename' = argv[2]
            /\ filename' = Basename(argv[2])
            /\ IF Len(argv) = 2
               THEN view_baseline' = 0 /\ Goto("fine_chans")
               ELSE LET r == PyInt(argv[3])
                    IN  IF r.err = "none"
                        THEN view_baseline' = r.val /\ Goto("fine_chans")
                        ELSE view_baseline' = view_baseline /\ Fail(r.err, 22)
    /\ UNCHANGED <<argv, file_bytes, fine_chans, tiles, baselines, np_data,
                   freqs, bl, fc, bytearray, pos, fig>>

\* lines 25-35
ExtractFineChans ==
    /\ pc = "fine_chans"
    /\ LET r == ParseFineChans(filename)
       IN  IF r.err = "none"
           THEN fine_chans' = r.val /\ Goto("tiles")
           ELSE fine_chans' = fine_chans
                /\ Fail(r.err, IF r.err = "IndexError" THEN 26 ELSE 34)
    /\ UNCHANGED <<argv, file_bytes, full_filename, filename, view_baseline,
                   tiles, baselines, np_data, freqs, bl, fc, bytearray, pos,
                   fig>>

\* lines 37-48
ExtractTiles ==
    /\ pc = "tiles"
    /\ LET r == ParseTiles(filename)
       IN  IF r.err = "none"
           THEN /\ tiles' = r.val
                /\ baselines' = Baselines(r.val)
                /\ Goto("alloc")
           ELSE /\ UNCHANGED <<tiles, baselines>>
                /\ Fail(r.err, IF r.err = "IndexError" THEN 37 ELSE 45)
    /\ UNCHANGED <<argv, file_bytes, full_filename, filename, view_baseline,
                   fine_chans, np_data, freqs, bl, fc, bytearray, pos, fig>>

\* lines 50-51: np.zeros refuses a negative dimension
Allocate ==
    /\ pc = "alloc"
    /\ IF baselines < 0 \/ fine_chans < 0
       THEN /\ UNCHANGED <<np_data, freqs>>
            /\ Fail("ValueError", 50)
       ELSE /\ np_data' = Zeros3(baselines, fine_chans, 2)
            /\ freqs' = Zeros1(fine_chans)
            /\ Goto("open")
    /\ UNCHANGED <<argv, file_bytes, full_filename, filename, view_baseline,
                   fine_chans, tiles, baselines, bl, fc, bytearray, pos, fig>>

\* lines 53-56
OpenFile ==
    /\ pc = "open"
    /\ bl' = 0
    /\ fc' = 0
    /\ bytearray' = Read(file_bytes, 0, RecordSize)
    /\ pos' = Len(bytearray')
    /\ Goto("loop")
    /\ UNCHANGED <<argv, file_bytes, full_filename, filename, view_baseline,
                   fine_chans, tiles, baselines, np_data, freqs, fig>>

\* lines 59-60: the two phases of the record go to [b, c, 0] and [b, c, 1]
StoreRecord(a, b, c, u) == Set3(Set3(a, b, c, 0, u[2]), b, c, 1, u[3])

\* a bug: the frequency of every record goes to the table
StoreFreqAlways(f, b, c, u) == Set1(f, c, u[1])

\* lines 62-63: the frequency goes to the table for baseline 0 only
StoreFreq(f, b, c, u) == IF b = 0 THEN Set1(f, c, u[1]) ELSE f

\* a bug: the channel counter is never reset
NextFcNoReset(c, n) == c + 1

\* lines 67-71: the channel counter after one record
NextFc(c, n) == IF c + 1 = n THEN 0 ELSE c + 1

\* a bug: the baseline counter never moves
NextBlStuck(b, c, n) == b

\* lines 69-70: the baseline counter after one record
NextBl(b, c, n) == IF c + 1 = n THEN b + 1 ELSE b

\* lines 58-71: one iteration of the decode loop.  The right-hand side of
\* line 59 is evaluated first (struct.error for a short chunk), then its
\* target (IndexError); lines 60 and 63 use indices line 59 has accepted
DecodeRecord ==
    /\ pc = "loop"
    /\ bytearray # <<>>
    /\ IF ~UnpackOk(bytearray)
       THEN /\ Fail("struct.error", 59)
            /\ UNCHANGED <<np_data, freqs, bl, fc, bytearray, pos>>
       ELSE IF ~CanSet3(np_data, bl, fc, 0)
            THEN /\ Fail("IndexError", 59)
                 /\ UNCHANGED <<np_data, freqs, bl, fc, bytearray, pos>>
            ELSE /\ np_data' = StoreRecord(np_data, bl, fc, Unpack(bytearray))
                 /\ freqs' = StoreFreq(freqs, bl, fc, Unpack(bytearray))
                 /\ bytearray' = Read(file_bytes, pos, RecordSize)
                 /\ pos' = pos + Len(bytearray')
                 /\ fc' = NextFc(fc, fine_chans)
                 /\ bl' = NextBl(bl, fc, fine_chans)
                 /\ Goto("loop")
    /\ UNCHANGED <<argv, file_bytes, full_filename, filename, view_baseline,
                   fine_chans, tiles, baselines, fig>>

\* line 58: the loop ends when read returns no byte
EndOfFile ==
    /\ pc = "loop"
    /\ bytearray = <<>>
    /\ Goto("plot")
    /\ UNCHANGED <<argv, file_bytes, full_filename, filename, view_baseline,
                   fine_chans, tiles, baselines, np_data, freqs, bl, fc,
                   bytearray, pos, fig>>

\* np_data[v, 0:fine_chans, k] is accepted
CanView(a, v) == InBounds(v, a.shape[1])

\* lines 73-79: the figure shown
Figure(f, a, v, n) ==
    [baseline |-> v, x |-> f.data, y0 |-> Row3(a, v, n, 0), y1 |-> Row3(a, v, n, 1)]

\* lines 73-79
Plot ==
    /\ pc = "plot"
    /\ IF ~CanView(np_data, view_baseline)
       THEN fig' = fig /\ Fail("IndexError", 77)
       ELSE /\ fig' = <<Figure(freqs, np_data, view_baseline, fine_chans)>>
            /\ Goto("done")
    /\ UNCHANGED <<argv, file_bytes, full_filename, filename, view_baseline,
                   fine_chans, tiles, baselines, np_data, freqs, bl, fc,
                   bytearray, pos>>

Next ==
    \/ ReadArgs
    \/ ExtractFineChans
    \/ ExtractTiles
    \/ Allocate
    \/ OpenFile
    \/ DecodeRecord
    \/ EndOfFile
    \/ Plot

Spec == Init /\ [][Next]_vars

(***************************************************************************)
(* What the claims speak of.                                               *)
(***************************************************************************)
\* the file name reached the extractor
Named == pc # "args" /\ ~(pc = "failed" /\ err_line \in {16, 22})

\* both numbers were extracted
Extracted ==
    /\ Named
    /\ pc \notin {"fine_chans", "tiles"}
    /\ ~(pc = "failed" /\ err_line \in {26, 34, 37, 45})

\* the two buffers exist
Allocated == Extracted /\ pc # "alloc" /\ ~(pc = "failed" /\ err_line = 50)

\* the decode loop has ended without an exception
DecodeEnded ==
    Allocated /\ (pc \in {"plot", "done"} \/ (pc = "failed" /\ err_line = 77))

\* the decode loop has raised an exception
DecodeFailed == Allocated /\ pc = "failed" /\ err_line = 59

\* the complete records of the file, and the bytes after them
NumRecords == Len(file_bytes) \div RecordSize

Trailing == Len(file_bytes) % RecordSize

\* the records the tensor has room for
Capacity == baselines * fine_chans

\* the file offset of the chunk read last, and its record number
ChunkOffset == pos - Len(bytearray)

ChunkNumber == ChunkOffset \div RecordSize

\* the number of digits at the head of a text
RECURSIVE DigitRun(_)
DigitRun(s) ==
    IF s = <<>> \/ ~IsDigit(s[1]) THEN 0 ELSE 1 + DigitRun(Tail(s))

\* the text written between "_fringes_" and "chans" of a file name of the
\* convention (the obs_id and "_fringes_" take the first 19 characters)
WrittenFineText(name) ==
    LET rest == SubSeq(name, Len(ObsId) + 10, Len(name))
    IN  SubSeq(rest, 1, DigitRun(rest))

\* the text written between "chans_" and "T"
WrittenTilesText(name) ==
    LET rest == SubSeq(name, Len(ObsId) + 10 + Len(WrittenFineText(name)) + 6,
                       Len(name))
    IN  SubSeq(rest, 1, DigitRun(rest))

\* the tensor entries and the table entries the first n records fill, the
\* others still zero
FilledTo(n) ==
    /\ \A b \in 0..(baselines - 1) : \A c \in 0..(fine_chans - 1) :
          LET r == b * fine_chans + c
          IN  /\ np_data.data[<<b, c, 0>>] = IF r < n THEN PhaseXOf(r) ELSE 0
              /\ np_data.data[<<b, c, 1>>] = IF r < n THEN PhaseYOf(r) ELSE 0
    /\ \A c \in 0..(fine_chans - 1) :
          freqs.data[c] = IF c < n THEN FreqOf(c) ELSE 0

\* the largest tile count three digits can write
MaxParsedTiles == 999

(***************************************************************************)
(* C1.  For every base name of the convention, with fine_chans and tiles   *)
(* written in 1, 2 or 3 digits, the extractor yields fine_chans equal to   *)
(* the integer written between "_fringes_" and "chans" and tiles equal to  *)
(* the integer written between "chans_" and "T".  Stated as: once the file *)
(* name has reached the extractor, the extractor raises nothing, and the   *)
(* numbers it has bound are the written ones.                              *)
(***************************************************************************)
C1_ExtractsWrittenNumbers ==
    Named =>
        /\ ~(pc = "failed" /\ err_line \in {26, 34, 37, 45})
        /\ pc # "fine_chans" =>
              fine_chans = DigitsValue(WrittenFineText(filename))
        /\ Extracted => tiles = DigitsValue(WrittenTilesText(filename))

(***************************************************************************)
(* C7.  For every tiles in 1..999 the baseline count is exactly            *)
(* tiles*(tiles+1)/2 (1 gives 1, 4 gives 10, 128 gives 8256), and the      *)
(* phase tensor is allocated with that many baselines, fine_chans channels *)
(* and 2 polarizations, all zero.                                          *)
(***************************************************************************)
C7_BaselinesAndAllocation ==
    /\ pc = "alloc" =>
          /\ \A t \in 1..MaxParsedTiles : 2 * Baselines(t) = t * (t + 1)
          /\ Baselines(1) = 1 /\ Baselines(4) = 10 /\ Baselines(128) = 8256
    /\ (Extracted /\ tiles >= 1) => 2 * baselines = tiles * (tiles + 1)
    /\ (pc = "open" /\ tiles >= 1) =>
          /\ np_data.shape = <<(tiles * (tiles + 1)) \div 2, fine_chans, 2>>
          /\ DOMAIN np_data.data =
                (0..((tiles * (tiles + 1)) \div 2 - 1))
                    \X (0..(fine_chans - 1)) \X (0..1)
          /\ \A i \in DOMAIN np_data.data : np_data.data[i] = 0

\* the tensor of 2 tiles and 2 channels has just been allocated
C7_Witness ==
    /\ pc = "open"
    /\ tiles = 2
    /\ fine_chans = 2
    /\ Cardinality(DOMAIN np_data.data) = 12

(***************************************************************************)
(* C2.  For fine_chans >= 1 and tiles >= 1, when the file holds exactly    *)
(* fine_chans * baselines complete records, the decode loop ends without   *)
(* error, and then tensor[b, c, 0] and tensor[b, c, 1] are the phase_x and *)
(* phase_y of record b*fine_chans + c and freqs[c] is the frequency of     *)
(* record c; at no moment does the frequency table hold the frequency of a *)
(* record of a baseline >= 1.                                              *)
(***************************************************************************)
ExactFile ==
    /\ Allocated
    /\ fine_chans >= 1
    /\ tiles >= 1
    /\ Trailing = 0
    /\ NumRecords = Capacity

C2_ExactFileDecodes ==
    ExactFile =>
        /\ ~DecodeFailed
        /\ DecodeEnded => FilledTo(NumRecords)
        /\ \A c \in 0..(fine_chans - 1) : freqs.data[c] \in {0, FreqOf(c)}

\* a file of 3 baselines of 2 channels has been decoded to its end
C2_Witness ==
    /\ ExactFile
    /\ pc = "plot"
    /\ fine_chans = 2
    /\ baselines = 3
    /\ np_data.data[<<2, 1, 1>>] = PhaseYOf(5)

(***************************************************************************)
(* C3, as claimed.  A file holding more than baselines * fine_chans        *)
(* complete records is processed silently: the decode pass runs to the end *)
(* of the file and raises nothing for the surplus records.                 *)
(***************************************************************************)
SurplusFile == Allocated /\ NumRecords > Capacity

C3_SurplusSilent == (SurplusFile /\ Trailing = 0) => ~DecodeFailed

(***************************************************************************)
(* C3, amended.  A file holding more than baselines * fine_chans complete  *)
(* records is rejected by no check before the decode loop, but the loop    *)
(* does not run to the end of the file: the first baselines * fine_chans   *)
(* records are stored, the first surplus record raises IndexError at       *)
(* line 59, and the plot step is never reached.                            *)
(***************************************************************************)
C3_SurplusOutOfBounds ==
    SurplusFile =>
        /\ pc \notin {"plot", "done"}
        /\ fig = <<>>
        /\ pc = "loop" => bytearray # <<>> /\ ChunkNumber <= Capacity
        /\ pc = "failed" =>
              /\ err = "IndexError"
              /\ err_line = 59
              /\ ChunkNumber = Capacity
              /\ FilledTo(Capacity)

\* the seventh record of a file decoded as 3 baselines of 2 channels has
\* been refused
C3_Witness ==
    /\ SurplusFile
    /\ pc = "failed"
    /\ err = "IndexError"
    /\ Capacity = 6
    /\ bl = 3
    /\ fc = 0

(***************************************************************************)
(* C5.  When the file length is a multiple of 12 and the file holds        *)
(* k < baselines * fine_chans records (k = 0 included), the decode loop    *)
(* ends without error, the first k positions in baseline-major order hold  *)
(* the decoded values and every other tensor and frequency entry is still  *)
(* zero; for the empty file no chunk is ever decoded.                      *)
(***************************************************************************)
ShortFile == Allocated /\ Trailing = 0 /\ NumRecords < Capacity

C5_ShortFileUnderfills ==
    ShortFile =>
        /\ ~DecodeFailed
        /\ DecodeEnded => FilledTo(NumRecords)
        /\ NumRecords = 0 => bytearray = <<>> /\ FilledTo(0)

\* 3 records have been decoded into a tensor of 3 baselines of 2 channels
C5_Witness ==
    /\ ShortFile
    /\ pc = "plot"
    /\ NumRecords = 3
    /\ fine_chans = 2
    /\ baselines = 3
    /\ np_data.data[<<1, 0, 0>>] = PhaseXOf(2)
    /\ np_data.data[<<1, 1, 0>>] = 0

(***************************************************************************)
(* C6, as claimed.  When the file length is not a multiple of 12, the run  *)
(* ends in a decode failure at the final, short chunk, all the complete    *)
(* records before it stored.                                               *)
(***************************************************************************)
RaggedFile == Allocated /\ Trailing # 0

C6_RaggedFailsAtShortChunk ==
    (RaggedFile /\ pc = "failed") =>
        /\ err = "struct.error"
        /\ Len(bytearray) = Trailing
        /\ ChunkNumber = NumRecords

(***************************************************************************)
(* C6, amended.  When the file length is not a multiple of 12 and the file *)
(* holds at most baselines * fine_chans complete records, the final read   *)
(* returns a non-empty chunk shorter than 12 bytes and the run ends in     *)
(* struct.error at that chunk (line 59): the short read is not taken for   *)
(* the end of the file, no value of the chunk is stored, every complete    *)
(* record before it is stored, and the plot step is never reached.         *)
(***************************************************************************)
C6_RaggedWithinCapacity ==
    (RaggedFile /\ NumRecords <= Capacity) =>
        /\ pc \notin {"plot", "done"}
        /\ fig = <<>>
        /\ pc = "loop" => bytearray # <<>>
        /\ pc = "failed" =>
              /\ err = "struct.error"
              /\ err_line = 59
              /\ Len(bytearray) = Trailing
              /\ ChunkNumber = NumRecords
              /\ pos = Len(file_bytes)
              /\ FilledTo(NumRecords)

\* the chunk after 3 complete records was short
C6_Witness ==
    /\ RaggedFile
    /\ pc = "failed"
    /\ err = "struct.error"
    /\ NumRecords = 3
    /\ Capacity = 6
    /\ Len(bytearray) = 1

(***************************************************************************)
(* C4.  A selected baseline index is accepted only when it lies in         *)
(* [0, baselines): an omitted BASELINE_NUMBER selects 0, and every integer *)
(* selection outside [0, baselines), negative or >= baselines, makes the   *)
(* run fail with an out-of-bounds access at plot time, after the whole     *)
(* file has been decoded, and never produces a plot.                       *)
(***************************************************************************)
SelectionInRange == 0 <= view_baseline /\ view_baseline < baselines

C4_SelectionInRange ==
    /\ (Named /\ Len(argv) = 2) => view_baseline = 0
    /\ fig # <<>> => SelectionInRange
    /\ (DecodeEnded /\ pc # "plot" /\ ~SelectionInRange) =>
          /\ pc = "failed"
          /\ err = "IndexError"
          /\ err_line = 77
          /\ fig = <<>>

(***************************************************************************)
(* C9.  Position tracking of the decode loop, for fine_chans >= 1: every   *)
(* time a record is about to be stored, 0 <= fc < fine_chans and the       *)
(* record is record number bl*fine_chans + fc of the file; storing it      *)
(* moves fc up by one, except that fc is reset to 0 exactly when it        *)
(* reaches fine_chans, which is the only moment bl moves up (by one); bl   *)
(* never moves down.                                                       *)
(***************************************************************************)
AboutToStore == pc = "loop" /\ bytearray # <<>> /\ fine_chans >= 1

C9_PositionTracking ==
    [][ /\ AboutToStore =>
              /\ 0 <= fc /\ fc < fine_chans
              /\ 0 <= bl
              /\ ChunkOffset = RecordSize * (bl * fine_chans + fc)
        /\ (AboutToStore /\ pc' = "loop") =>
              /\ fc + 1 < fine_chans => (fc' = fc + 1 /\ bl' = bl)
              /\ fc + 1 = fine_chans => (fc' = 0 /\ bl' = bl + 1)
        /\ (AboutToStore /\ pc' # "loop") => (fc' = fc /\ bl' = bl)
        /\ bl' >= bl
      ]_vars

\* the loop stands at the second channel of the third baseline
C9_Witness ==
    /\ AboutToStore
    /\ fine_chans = 2
    /\ bl = 2
    /\ fc = 1
    /\ ChunkNumber = 5

(***************************************************************************)
(* C10.  Within one run every entry of the phase tensor and of the         *)
(* frequency table is written at most once: storing one record changes     *)
(* only tensor[bl, fc, 0], tensor[bl, fc, 1] and, when bl = 0, freqs[fc];  *)
(* a record with bl >= 1 leaves the whole frequency table unchanged; and   *)
(* once the decode loop has ended neither buffer changes again.  The       *)
(* records of the files hold no zero, so an entry that is zero has not     *)
(* been written: "at most once" is that a changed entry was zero.          *)
(***************************************************************************)
C10_WrittenOnce ==
    [][ /\ pc = "loop" =>
              /\ np_data'.shape = np_data.shape
              /\ DOMAIN np_data'.data = DOMAIN np_data.data
              /\ \A i \in DOMAIN np_data.data :
                    np_data'.data[i] # np_data.data[i] =>
                        /\ i \in {<<bl, fc, 0>>, <<bl, fc, 1>>}
                        /\ np_data.data[i] = 0
              /\ freqs'.shape = freqs.shape
              /\ DOMAIN freqs'.data = DOMAIN freqs.data
              /\ \A c \in DOMAIN freqs.data :
                    freqs'.data[c] # freqs.data[c] =>
                        /\ c = fc
                        /\ bl = 0
                        /\ freqs.data[c] = 0
              /\ bl >= 1 => freqs' = freqs
        /\ pc \in {"plot", "done", "failed"} =>
              (np_data' = np_data /\ freqs' = freqs)
      ]_vars

\* all 6 records are stored and the plot of a later baseline is shown
C10_Witness ==
    /\ pc = "done"
    /\ NumRecords = 6
    /\ fine_chans = 2
    /\ baselines = 3
    /\ view_baseline = 2
    /\ np_data.data[<<2, 1, 0>>] = PhaseXOf(5)
    /\ freqs.data[1] = FreqOf(1)

====
